---- MODULE Spec2Model ----
(***************************************************************************)
(* The server-side idempotency interceptor of gocsi                        *)
(* (interceptors_server_idemp.go) in front of a volume service (the mock   *)
(* plug-in of mock/service), as a state machine.                           *)
(*                                                                         *)
(* Every request runs on its own goroutine.  A goroutine is a process p;   *)
(* pc[p] is its position in the procedure it runs, defers[p] is the stack  *)
(* of its deferred calls (Go runs them last-registered-first when the      *)
(* procedure returns).                                                     *)
(***************************************************************************)
EXTENDS Integers, Sequences, FiniteSets, TLC

\* ------------------------------------------------------------------ bounds
NumProcs == 2       \* goroutines serving requests concurrently
MaxRequests == 3    \* requests started in one behaviour
MaxVolID == 2       \* volume ids are 1..MaxVolID (the service numbers its volumes)
MaxName == 1        \* volume names are 1..MaxName
MaxListLen == 11    \* ListVolumes: volumes in the service's list
MaxPage == 3        \* ListVolumes: req.MaxEntries is 0..MaxPage

Procs == 1..NumProcs
VolIDs == 1..MaxVolID
Names == 1..MaxName

\* ------------------------------------------------------------- vocabulary
CreateVolume == "CreateVolume"
DeleteVolume == "DeleteVolume"
ControllerPublishVolume == "ControllerPublishVolume"
ControllerUnpublishVolume == "ControllerUnpublishVolume"
NodePublishVolume == "NodePublishVolume"
NodeUnpublishVolume == "NodeUnpublishVolume"
\* a request variant the dispatcher does not cover (ListVolumes, GetCapacity, ...)
OtherRPC == "Other"

\* mutant: the dispatcher's switch has a case for one more variant
IDMethods_OneMore == {DeleteVolume, ControllerPublishVolume, ControllerUnpublishVolume,
                      NodePublishVolume, NodeUnpublishVolume, OtherRPC}

IDMethods == {DeleteVolume, ControllerPublishVolume, ControllerUnpublishVolume,
              NodePublishVolume, NodeUnpublishVolume}
Covered == IDMethods \cup {CreateVolume}
AllMethods == Covered \cup {OtherRPC}

PENDING == "OPERATION_PENDING_FOR_VOLUME"
NOVOLUME == "VOLUME_DOES_NOT_EXIST"
MISSING_REQUIRED_FIELD == "MISSING_REQUIRED_FIELD"

NoErr == "nil"
OracleErr == "oracle error"
HandlerErr == "handler error"

NoVol == 0          \* a nil *csi.VolumeInfo
NoPub == "nil"      \* a nil publication map
DevMock == "/dev/mock"

\* replies: a nil interface, a Result reply, or an Error reply with its code
NilRes == [kind |-> "nil", code |-> "", vol |-> NoVol, pub |-> NoPub]
ErrReply(code) == [kind |-> "error", code |-> code, vol |-> NoVol, pub |-> NoPub]
ResultReply(v, m) == [kind |-> "result", code |-> "", vol |-> v, pub |-> m]
EmptyResult == ResultReply(NoVol, NoPub)

\* resErr != nil || res.(*csi.XResponse).GetError() != nil
Failed(r, e) == e # NoErr \/ r.kind = "error"

\* no previous request to compare with
NoPrev ==
  [m |-> "none", k |-> 0, res |-> NilRes, resErr |-> NoErr, calls |-> 0, marked |-> FALSE,
   ok |-> FALSE]

\* no client of ListVolumes
NoLister ==
  [startingToken |-> << >>, maxEntries |-> 0, pos |-> 0, fromStart |-> FALSE,
   reply |-> [kind |-> "none", entries |-> << >>, nextToken |-> << >>], seen |-> << >>]

VARIABLES
  requireVolume,  \* opts.requireVolume
  volIDLocks,     \* id -> volLockInfo, for the ids looked up so far
  volNameLocks,   \* name -> volLockInfo, for the names looked up so far
  vols,           \* the service's volume list
  nextID,         \* the id the service gives the next volume it creates
  pc, method, key, \* per goroutine: position, RPC, req.VolumeId or req.Name
  volInfo,        \* createVolume: the id its by-name query found, the key of idLock
  res, resErr,    \* the named results of the procedure
  defers,         \* the deferred calls, in the order they were registered
  held,           \* the locks the goroutine acquired and has not yet released
  handlerCalls,   \* times the request invoked the downstream handler
  oracleCalls,    \* times the request invoked an oracle operation
  started,        \* requests started so far
  markAtLock,     \* the request's mark was in the set when it acquired its first lock
  sequential,     \* one client sends one request at a time (served on goroutine 1)
  faults,         \* the oracle and the handler can fail (FALSE: the mock service, which
                  \* never returns an error, and an oracle that reads its volume list)
  prev,           \* sequential: the request before the latest one, if it returned
  lister          \* a client of ListVolumes: its request, the reply, what it has read

vars == <<requireVolume, volIDLocks, volNameLocks, vols, nextID, pc, method, key,
          volInfo, res, resErr, defers, held, handlerCalls, oracleCalls, started,
          markAtLock, sequential, faults, prev, lister>>

\* the errors an oracle operation can return
OracleErrs == IF faults THEN {NoErr, OracleErr} ELSE {NoErr}

\* ------------------------------------------------------------ lock table
\* &volLockInfo{NewMutexWithTryLock(), map[string]struct{}{}}
NewVolLockInfo == [locked |-> FALSE, methodInErr |-> {}]

\* mutant: the lookup is skipped and a new record replaces the one in the table
lockWithID_AlwaysNew(tbl, id) ==
  [k \in DOMAIN tbl \cup {id} |-> IF k = id THEN NewVolLockInfo ELSE tbl[k]]

\* get-or-create of the id table
lockWithID(tbl, id) ==
  IF id \in DOMAIN tbl THEN tbl ELSE [k \in DOMAIN tbl \cup {id} |->
                                       IF k = id THEN NewVolLockInfo ELSE tbl[k]]

\* mutant: the name table hands out a new record on every lookup
lockWithName_AlwaysNew(tbl, name) ==
  [k \in DOMAIN tbl \cup {name} |-> IF k = name THEN NewVolLockInfo ELSE tbl[k]]

\* get-or-create of the name table
lockWithName(tbl, name) ==
  IF name \in DOMAIN tbl THEN tbl ELSE [k \in DOMAIN tbl \cup {name} |->
                                         IF k = name THEN NewVolLockInfo ELSE tbl[k]]

\* MutexWithTryLock: TryLock succeeds on an unlocked mutex
CanLock(rec) == ~rec.locked
Locked(rec) == [rec EXCEPT !.locked = TRUE]
Unlocked(rec) == [rec EXCEPT !.locked = FALSE]

\* ---------------------------------------------------------------- oracle
\* position of the first volume of the list with this id (0: none)
RECURSIVE FindBy(_, _, _, _)
FindBy(list, field, val, i) ==
  IF i > Len(list) THEN 0
  ELSE IF (IF field = "id" THEN list[i].id ELSE list[i].name) = val THEN i
  ELSE FindBy(list, field, val, i + 1)

\* GetVolumeInfo(ctx, id, ""): the volume's id, NoVol when it does not exist
GetVolumeInfoByID(id) ==
  IF FindBy(vols, "id", id, 1) = 0 THEN NoVol ELSE id

\* GetVolumeInfo(ctx, "", name)
GetVolumeInfoByName(name) ==
  LET i == FindBy(vols, "name", name, 1) IN IF i = 0 THEN NoVol ELSE vols[i].id

\* IsControllerPublished(ctx, volumeID, nodeID)
IsControllerPublished(id) ==
  LET i == FindBy(vols, "id", id, 1) IN IF i = 0 THEN NoPub ELSE vols[i].dev

\* IsNodePublished(ctx, id, pubVolInfo, targetPath)
IsNodePublished(id) ==
  LET i == FindBy(vols, "id", id, 1) IN IF i = 0 THEN FALSE ELSE vols[i].mnt

\* ------------------------------------------------------- the mock service
\* s.newVolume(name, capacity): the next volume, not yet published anywhere
newVolume(name) == [id |-> nextID, name |-> name, dev |-> NoPub, mnt |-> FALSE]

\* service.CreateVolume: unconditionally appends a new volume
SvcCreateVolume(name) == Append(vols, newVolume(name))

\* service.DeleteVolume: removes the volume, keeping the order of the others
SvcDeleteVolume(id) ==
  LET i == FindBy(vols, "id", id, 1) IN
  [j \in 1..(Len(vols) - 1) |-> IF j < i THEN vols[j] ELSE vols[j + 1]]

\* service.ControllerPublishVolume: v.Attributes[devPathKey] = "/dev/mock"
SvcControllerPublishVolume(id) ==
  [vols EXCEPT ![FindBy(vols, "id", id, 1)].dev = DevMock]

\* service.ControllerUnpublishVolume: delete(v.Attributes, devPathKey)
SvcControllerUnpublishVolume(id) ==
  [vols EXCEPT ![FindBy(vols, "id", id, 1)].dev = NoPub]

\* service.NodePublishVolume: v.Attributes[nodeMntPathKey] = device
SvcNodePublishVolume(id) ==
  [vols EXCEPT ![FindBy(vols, "id", id, 1)].mnt = TRUE]

\* service.NodeUnpublishVolume: delete(v.Attributes, nodeMntPathKey)
SvcNodeUnpublishVolume(id) ==
  [vols EXCEPT ![FindBy(vols, "id", id, 1)].mnt = FALSE]

\* the volume list after the handler of method m succeeded on key k
SvcEffect(m, k) ==
  CASE m = CreateVolume -> SvcCreateVolume(k)
    [] m = DeleteVolume -> SvcDeleteVolume(k)
    [] m = ControllerPublishVolume -> SvcControllerPublishVolume(k)
    [] m = ControllerUnpublishVolume -> SvcControllerUnpublishVolume(k)
    [] m = NodePublishVolume -> SvcNodePublishVolume(k)
    [] m = NodeUnpublishVolume -> SvcNodeUnpublishVolume(k)
    [] OTHER -> vols

\* the Result reply of the handler of method m
SvcReply(m, k) ==
  CASE m = CreateVolume -> ResultReply(nextID, NoPub)
    [] m = ControllerPublishVolume -> ResultReply(NoVol, DevMock)
    [] OTHER -> EmptyResult

\* the service can carry the request out: a volume list with room for one more
\* (CreateVolume), or a volume to work on (the five id-keyed RPCs)
SvcCan(m, k) ==
  CASE m = CreateVolume -> nextID <= MaxVolID
    [] m \in IDMethods -> FindBy(vols, "id", k, 1) # 0
    [] OTHER -> TRUE

\* ------------------------------------------------------------------ Init
InitState ==
  /\ requireVolume \in BOOLEAN
  /\ volIDLocks = << >>
  /\ volNameLocks = << >>
  /\ vols = << [id |-> 1, name |-> 1, dev |-> NoPub, mnt |-> FALSE] >>
  /\ nextID = 2
  /\ pc = [p \in Procs |-> "idle"]
  /\ method = [p \in Procs |-> OtherRPC]
  /\ key = [p \in Procs |-> 1]
  /\ volInfo = [p \in Procs |-> NoVol]
  /\ res = [p \in Procs |-> NilRes]
  /\ resErr = [p \in Procs |-> NoErr]
  /\ defers = [p \in Procs |-> << >>]
  /\ held = [p \in Procs |-> {}]
  /\ handlerCalls = [p \in Procs |-> 0]
  /\ oracleCalls = [p \in Procs |-> 0]
  /\ started = 0
  /\ markAtLock = [p \in Procs |-> FALSE]
  /\ prev = NoPrev
  /\ lister = NoLister

\* --------------------------------------------------------- shared steps
\* mutant: the Unlock is not deferred
DeferredCalls_NoUnlock(tbl, k) == << [op |-> "hook", tbl |-> tbl, k |-> k] >>

\* the two deferred calls a procedure registers after it acquired a lock:
\* first the outcome hook, then the Unlock
DeferredCalls(tbl, k) ==
  << [op |-> "hook", tbl |-> tbl, k |-> k], [op |-> "unlock", tbl |-> tbl, k |-> k] >>

\* return r, e: the named results are set and the deferred calls start to run
ReturnWith(p, r, e) ==
  /\ res' = [res EXCEPT ![p] = r]
  /\ resErr' = [resErr EXCEPT ![p] = e]
  /\ pc' = [pc EXCEPT ![p] = IF defers[p] = << >> THEN "done" ELSE "return"]

\* return handler(ctx, req): the call of the downstream handler begins
Delegate(p) ==
  /\ pc' = [pc EXCEPT ![p] = "handler"]
  /\ handlerCalls' = [handlerCalls EXCEPT ![p] = @ + 1]

\* mutant: the result of TryLock is ignored
AcquireID_Unchecked(p, id, at, next) ==
  /\ pc[p] = at
  /\ volIDLocks' = [volIDLocks EXCEPT ![id] = Locked(@)]
  /\ held' = [held EXCEPT ![p] = @ \cup {<<"id", id>>}]
  /\ defers' = [defers EXCEPT ![p] = @ \o DeferredCalls("id", id)]
  /\ markAtLock' = [markAtLock EXCEPT ![p] = method[p] \in volIDLocks[id].methodInErr]
  /\ pc' = [pc EXCEPT ![p] = next]
  /\ UNCHANGED <<requireVolume, volNameLocks, vols, nextID, method, key, volInfo, res,
                 resErr, handlerCalls, oracleCalls, started, sequential, faults, prev, lister>>

\* mutant: one mutex for the whole id table
AcquireID_OneMutex(p, id, at, next) ==
  /\ pc[p] = at
  /\ IF \A k \in DOMAIN volIDLocks : CanLock(volIDLocks[k])
     THEN /\ volIDLocks' = [volIDLocks EXCEPT ![id] = Locked(@)]
          /\ held' = [held EXCEPT ![p] = @ \cup {<<"id", id>>}]
          /\ defers' = [defers EXCEPT ![p] = @ \o DeferredCalls("id", id)]
          /\ markAtLock' = [markAtLock EXCEPT
                ![p] = method[p] \in volIDLocks[id].methodInErr]
          /\ pc' = [pc EXCEPT ![p] = next]
          /\ UNCHANGED <<res, resErr>>
     ELSE /\ ReturnWith(p, ErrReply(PENDING), NoErr)
          /\ UNCHANGED <<volIDLocks, held, defers, markAtLock>>
  /\ UNCHANGED <<requireVolume, volNameLocks, vols, nextID, method, key, volInfo,
                 handlerCalls, oracleCalls, started, sequential, faults, prev, lister>>

\* mutant: the deferred calls of the id-lock run after those registered before
AcquireID_DeferOutermost(p, id, at, next) ==
  /\ pc[p] = at
  /\ IF CanLock(volIDLocks[id])
     THEN /\ volIDLocks' = [volIDLocks EXCEPT ![id] = Locked(@)]
          /\ held' = [held EXCEPT ![p] = @ \cup {<<"id", id>>}]
          /\ defers' = [defers EXCEPT ![p] = DeferredCalls("id", id) \o @]
          /\ markAtLock' = [markAtLock EXCEPT
                ![p] = method[p] \in volIDLocks[id].methodInErr]
          /\ pc' = [pc EXCEPT ![p] = next]
          /\ UNCHANGED <<res, resErr>>
     ELSE /\ ReturnWith(p, ErrReply(PENDING), NoErr)
          /\ UNCHANGED <<volIDLocks, held, defers, markAtLock>>
  /\ UNCHANGED <<requireVolume, volNameLocks, vols, nextID, method, key, volInfo,
                 handlerCalls, oracleCalls, started, sequential, faults, prev, lister>>

\* lock := i.lockWithID(req.VolumeId); if !lock.TryLock(timeout) { return pending };
\* defer hook; defer lock.Unlock()
AcquireID(p, id, at, next) ==
  /\ pc[p] = at
  /\ IF CanLock(volIDLocks[id])
     THEN /\ volIDLocks' = [volIDLocks EXCEPT ![id] = Locked(@)]
          /\ held' = [held EXCEPT ![p] = @ \cup {<<"id", id>>}]
          /\ defers' = [defers EXCEPT ![p] = @ \o DeferredCalls("id", id)]
          /\ markAtLock' = [markAtLock EXCEPT
                ![p] = method[p] \in volIDLocks[id].methodInErr]
          /\ pc' = [pc EXCEPT ![p] = next]
          /\ UNCHANGED <<res, resErr>>
     ELSE /\ ReturnWith(p, ErrReply(PENDING), NoErr)
          /\ UNCHANGED <<volIDLocks, held, defers, markAtLock>>
  /\ UNCHANGED <<requireVolume, volNameLocks, vols, nextID, method, key, volInfo,
                 handlerCalls, oracleCalls, started, sequential, faults, prev, lister>>

\* mutant: a mark of any method sends the request to the handler
CheckMethodInErr_AnyMark(p, lock, at, next) ==
  /\ pc[p] = at
  /\ IF lock.methodInErr # {}
     THEN Delegate(p)
     ELSE /\ pc' = [pc EXCEPT ![p] = next]
          /\ UNCHANGED handlerCalls
  /\ UNCHANGED <<requireVolume, volIDLocks, volNameLocks, vols, nextID, method, key,
                 volInfo, res, resErr, defers, held, oracleCalls, started, markAtLock,
                 sequential, faults, prev, lister>>

\* if _, ok := lock.methodInErr[info.FullMethod]; ok { return handler(ctx, req) }
CheckMethodInErr(p, lock, at, next) ==
  /\ pc[p] = at
  /\ IF method[p] \in lock.methodInErr
     THEN Delegate(p)
     ELSE /\ pc' = [pc EXCEPT ![p] = next]
          /\ UNCHANGED handlerCalls
  /\ UNCHANGED <<requireVolume, volIDLocks, volNameLocks, vols, nextID, method, key,
                 volInfo, res, resErr, defers, held, oracleCalls, started, markAtLock,
                 sequential, faults, prev, lister>>

\* mutant: the result of the existence check is not looked at
RequireVolume_Ignored(p, errReply, found) ==
  /\ pc[p] = "precheck"
  /\ oracleCalls' = [oracleCalls EXCEPT ![p] = @ + 1]
  /\ \E err \in OracleErrs :
       IF err # NoErr
       THEN ReturnWith(p, NilRes, err) /\ UNCHANGED handlerCalls
       ELSE IF found = "handler"
       THEN Delegate(p) /\ UNCHANGED <<res, resErr>>
       ELSE /\ pc' = [pc EXCEPT ![p] = found]
            /\ UNCHANGED <<res, resErr, handlerCalls>>
  /\ UNCHANGED <<requireVolume, volIDLocks, volNameLocks, vols, nextID, method, key,
                 volInfo, defers, held, started, markAtLock, sequential, faults, prev, lister>>

\* mutant: the existence check answers an absent volume with an empty success
RequireVolume_AbsentOK(p, errReply, found) ==
  /\ pc[p] = "precheck"
  /\ oracleCalls' = [oracleCalls EXCEPT ![p] = @ + 1]
  /\ \E err \in OracleErrs :
       IF err # NoErr
       THEN ReturnWith(p, NilRes, err) /\ UNCHANGED handlerCalls
       ELSE IF GetVolumeInfoByID(key[p]) = NoVol
       THEN ReturnWith(p, EmptyResult, NoErr) /\ UNCHANGED handlerCalls
       ELSE IF found = "handler"
       THEN Delegate(p) /\ UNCHANGED <<res, resErr>>
       ELSE /\ pc' = [pc EXCEPT ![p] = found]
            /\ UNCHANGED <<res, resErr, handlerCalls>>
  /\ UNCHANGED <<requireVolume, volIDLocks, volNameLocks, vols, nextID, method, key,
                 volInfo, defers, held, started, markAtLock, sequential, faults, prev, lister>>

\* if i.opts.requireVolume { volInfo, err := i.p.GetVolumeInfo(ctx, req.VolumeId, "") ... }
\* found: what happens when the volume exists
RequireVolume(p, errReply, found) ==
  /\ pc[p] = "precheck"
  /\ oracleCalls' = [oracleCalls EXCEPT ![p] = @ + 1]
  /\ \E err \in OracleErrs :
       IF err # NoErr
       THEN ReturnWith(p, NilRes, err) /\ UNCHANGED handlerCalls
       ELSE IF GetVolumeInfoByID(key[p]) = NoVol
       THEN ReturnWith(p, errReply, NoErr) /\ UNCHANGED handlerCalls
       ELSE IF found = "handler"
       THEN Delegate(p) /\ UNCHANGED <<res, resErr>>
       ELSE /\ pc' = [pc EXCEPT ![p] = found]
            /\ UNCHANGED <<res, resErr, handlerCalls>>
  /\ UNCHANGED <<requireVolume, volIDLocks, volNameLocks, vols, nextID, method, key,
                 volInfo, defers, held, started, markAtLock,
                 sequential, faults, prev, lister>>

\* the idempotency query of an id-keyed procedure: an oracle error is returned,
\* done (the end state is reached) returns reply, anything else delegates
Query(p, done, reply) ==
  /\ pc[p] = "query"
  /\ oracleCalls' = [oracleCalls EXCEPT ![p] = @ + 1]
  /\ \E err \in OracleErrs :
       IF err # NoErr
       THEN ReturnWith(p, NilRes, err) /\ UNCHANGED handlerCalls
       ELSE IF done
       THEN ReturnWith(p, reply, NoErr) /\ UNCHANGED handlerCalls
       ELSE Delegate(p) /\ UNCHANGED <<res, resErr>>
  /\ UNCHANGED <<requireVolume, volIDLocks, volNameLocks, vols, nextID, method, key,
                 volInfo, defers, held, started, markAtLock,
                 sequential, faults, prev, lister>>

\* where a procedure goes after the methodInErr check found no mark
AfterCheck == IF requireVolume THEN "precheck" ELSE "query"

\* ------------------------------------------------------------ dispatcher
\* the goroutine is serving a request that has not returned yet
InFlight(p) == pc[p] \notin {"idle", "done", "panic"}


\* handle: a new request of method m on key k arrives on goroutine p.  A covered
\* variant enters its procedure, whose first statement looks the lock record up;
\* any other variant goes straight to the downstream handler.
handle(p, m, k) ==
  /\ pc[p] \in {"idle", "done", "panic"}
  /\ started < MaxRequests
  /\ started' = started + 1
  /\ method' = [method EXCEPT ![p] = m]
  /\ key' = [key EXCEPT ![p] = k]
  /\ volInfo' = [volInfo EXCEPT ![p] = NoVol]
  /\ res' = [res EXCEPT ![p] = NilRes]
  /\ resErr' = [resErr EXCEPT ![p] = NoErr]
  /\ defers' = [defers EXCEPT ![p] = << >>]
  /\ oracleCalls' = [oracleCalls EXCEPT ![p] = 0]
  /\ markAtLock' = [markAtLock EXCEPT ![p] = FALSE]
  /\ sequential => p = 1
  /\ prev' = IF sequential /\ pc[p] = "done"
              THEN [m |-> method[p], k |-> key[p], res |-> res[p],
                    resErr |-> resErr[p], calls |-> handlerCalls[p],
                    marked |-> markAtLock[p], ok |-> ~Failed(res[p], resErr[p])]
              ELSE NoPrev
  /\ UNCHANGED <<sequential, faults, lister>>
  /\ CASE m = CreateVolume ->
            /\ k \in Names
            /\ volNameLocks' = lockWithName(volNameLocks, k)
            /\ pc' = [pc EXCEPT ![p] = "trylock"]
            /\ handlerCalls' = [handlerCalls EXCEPT ![p] = 0]
            /\ UNCHANGED volIDLocks
       [] m \in IDMethods ->
            /\ k \in VolIDs
            /\ volIDLocks' = lockWithID(volIDLocks, k)
            /\ pc' = [pc EXCEPT ![p] = "trylock"]
            /\ handlerCalls' = [handlerCalls EXCEPT ![p] = 0]
            /\ UNCHANGED volNameLocks
       [] OTHER ->
            /\ k = 1
            /\ pc' = [pc EXCEPT ![p] = "handler"]
            /\ handlerCalls' = [handlerCalls EXCEPT ![p] = 1]
            /\ UNCHANGED <<volIDLocks, volNameLocks>>
  /\ UNCHANGED <<requireVolume, vols, nextID, held>>

\* ------------------------------------------------------- the procedures
\* mutant: the short-circuit reply leaves out the publication info
controllerPublishVolume_NoInfo(p) ==
  /\ method[p] = ControllerPublishVolume
  /\ \/ AcquireID(p, key[p], "trylock", "check")
     \/ CheckMethodInErr(p, volIDLocks[key[p]], "check", AfterCheck)
     \/ RequireVolume(p, ErrReply(NOVOLUME), "query")
     \/ LET pubInfo == IsControllerPublished(key[p]) IN
        Query(p, pubInfo # NoPub, EmptyResult)

controllerPublishVolume(p) ==
  /\ method[p] = ControllerPublishVolume
  /\ \/ AcquireID(p, key[p], "trylock", "check")
     \/ CheckMethodInErr(p, volIDLocks[key[p]], "check", AfterCheck)
     \/ RequireVolume(p, ErrReply(NOVOLUME), "query")
     \/ LET pubInfo == IsControllerPublished(key[p]) IN
        Query(p, pubInfo # NoPub, ResultReply(NoVol, pubInfo))

controllerUnpublishVolume(p) ==
  /\ method[p] = ControllerUnpublishVolume
  /\ \/ AcquireID(p, key[p], "trylock", "check")
     \/ CheckMethodInErr(p, volIDLocks[key[p]], "check", AfterCheck)
     \/ RequireVolume(p, ErrReply(NOVOLUME), "query")
     \/ LET pubInfo == IsControllerPublished(key[p]) IN
        Query(p, pubInfo = NoPub, EmptyResult)

\* mutant: an absent volume does not short-circuit the request
deleteVolume_NoShortCircuit(p) ==
  /\ method[p] = DeleteVolume
  /\ \/ AcquireID(p, key[p], "trylock", "check")
     \/ CheckMethodInErr(p, volIDLocks[key[p]], "check", AfterCheck)
     \/ RequireVolume(p, ErrReply(NOVOLUME), "handler")
     \/ Query(p, FALSE, EmptyResult)

\* mutant: the existence check does not set volExists
deleteVolume_Requery(p) ==
  /\ method[p] = DeleteVolume
  /\ \/ AcquireID(p, key[p], "trylock", "check")
     \/ CheckMethodInErr(p, volIDLocks[key[p]], "check", AfterCheck)
     \/ RequireVolume(p, ErrReply(NOVOLUME), "query")
     \/ LET volExists == GetVolumeInfoByID(key[p]) # NoVol IN
        Query(p, ~volExists, EmptyResult)

deleteVolume(p) ==
  /\ method[p] = DeleteVolume
  /\ \/ AcquireID(p, key[p], "trylock", "check")
     \/ CheckMethodInErr(p, volIDLocks[key[p]], "check", AfterCheck)
     \* volExists = true: the second GetVolumeInfo is skipped
     \/ RequireVolume(p, ErrReply(NOVOLUME), "handler")
     \/ LET volExists == GetVolumeInfoByID(key[p]) # NoVol IN
        Query(p, ~volExists, EmptyResult)

\* mutant: the answer of IsNodePublished is read the wrong way round
nodePublishVolume_Inverted(p) ==
  /\ method[p] = NodePublishVolume
  /\ \/ AcquireID(p, key[p], "trylock", "check")
     \/ CheckMethodInErr(p, volIDLocks[key[p]], "check", AfterCheck)
     \/ RequireVolume(p, ErrReply(NOVOLUME), "query")
     \/ LET ok == IsNodePublished(key[p]) IN
        Query(p, ~ok, EmptyResult)

nodePublishVolume(p) ==
  /\ method[p] = NodePublishVolume
  /\ \/ AcquireID(p, key[p], "trylock", "check")
     \/ CheckMethodInErr(p, volIDLocks[key[p]], "check", AfterCheck)
     \/ RequireVolume(p, ErrReply(NOVOLUME), "query")
     \/ LET ok == IsNodePublished(key[p]) IN
        Query(p, ok, EmptyResult)

nodeUnpublishVolume(p) ==
  /\ method[p] = NodeUnpublishVolume
  /\ \/ AcquireID(p, key[p], "trylock", "check")
     \/ CheckMethodInErr(p, volIDLocks[key[p]], "check", AfterCheck)
     \/ RequireVolume(p, ErrReply(NOVOLUME), "query")
     \/ LET ok == IsNodePublished(key[p]) IN
        Query(p, ~ok, EmptyResult)

\* mutant: a failed TryLock is reported as a transport-level error
AcquireName_Error(p) ==
  /\ pc[p] = "trylock"
  /\ IF CanLock(volNameLocks[key[p]])
     THEN /\ volNameLocks' = [volNameLocks EXCEPT ![key[p]] = Locked(@)]
          /\ held' = [held EXCEPT ![p] = @ \cup {<<"name", key[p]>>}]
          /\ defers' = [defers EXCEPT ![p] = DeferredCalls("name", key[p])]
          /\ markAtLock' = [markAtLock EXCEPT
                ![p] = method[p] \in volNameLocks[key[p]].methodInErr]
          /\ pc' = [pc EXCEPT ![p] = "check"]
          /\ UNCHANGED <<res, resErr>>
     ELSE /\ ReturnWith(p, NilRes, HandlerErr)
          /\ UNCHANGED <<volNameLocks, held, defers, markAtLock>>
  /\ UNCHANGED <<requireVolume, volIDLocks, vols, nextID, method, key, volInfo,
                 handlerCalls, oracleCalls, started, sequential, faults, prev, lister>>

\* nameLock := i.lockWithName(req.Name); if !nameLock.TryLock(timeout) { return pending };
\* defer hook; defer nameLock.Unlock()
AcquireName(p) ==
  /\ pc[p] = "trylock"
  /\ IF CanLock(volNameLocks[key[p]])
     THEN /\ volNameLocks' = [volNameLocks EXCEPT ![key[p]] = Locked(@)]
          /\ held' = [held EXCEPT ![p] = @ \cup {<<"name", key[p]>>}]
          /\ defers' = [defers EXCEPT ![p] = DeferredCalls("name", key[p])]
          /\ markAtLock' = [markAtLock EXCEPT
                ![p] = method[p] \in volNameLocks[key[p]].methodInErr]
          /\ pc' = [pc EXCEPT ![p] = "check"]
          /\ UNCHANGED <<res, resErr>>
     ELSE /\ ReturnWith(p, ErrReply(PENDING), NoErr)
          /\ UNCHANGED <<volNameLocks, held, defers, markAtLock>>
  /\ UNCHANGED <<requireVolume, volIDLocks, vols, nextID, method, key, volInfo,
                 handlerCalls, oracleCalls, started, sequential, faults, prev, lister>>

\* mutant: an unknown name is answered VOLUME_DOES_NOT_EXIST
QueryByName_NoDelegate(p) ==
  /\ pc[p] = "query"
  /\ oracleCalls' = [oracleCalls EXCEPT ![p] = @ + 1]
  /\ \E err \in OracleErrs :
       LET v == GetVolumeInfoByName(key[p]) IN
       IF err # NoErr
       THEN ReturnWith(p, NilRes, err) /\ UNCHANGED <<handlerCalls, volInfo, volIDLocks>>
       ELSE IF v = NoVol
       THEN /\ ReturnWith(p, ErrReply(NOVOLUME), NoErr)
            /\ UNCHANGED <<handlerCalls, volInfo, volIDLocks>>
       ELSE /\ volInfo' = [volInfo EXCEPT ![p] = v]
            /\ volIDLocks' = lockWithID(volIDLocks, v)
            /\ pc' = [pc EXCEPT ![p] = "idtrylock"]
            /\ UNCHANGED <<res, resErr, handlerCalls>>
  /\ UNCHANGED <<requireVolume, volNameLocks, vols, nextID, method, key, defers, held,
                 started, markAtLock, sequential, faults, prev, lister>>

\* mutant: the volume the oracle found by name is not looked at
QueryByName_NoLookup(p) ==
  /\ pc[p] = "query"
  /\ oracleCalls' = [oracleCalls EXCEPT ![p] = @ + 1]
  /\ \E err \in OracleErrs :
       IF err # NoErr
       THEN ReturnWith(p, NilRes, err) /\ UNCHANGED <<handlerCalls, volInfo, volIDLocks>>
       ELSE Delegate(p) /\ UNCHANGED <<res, resErr, volInfo, volIDLocks>>
  /\ UNCHANGED <<requireVolume, volNameLocks, vols, nextID, method, key, defers, held,
                 started, markAtLock, sequential, faults, prev, lister>>

\* volInfo, err := i.p.GetVolumeInfo(ctx, "", req.Name); nil delegates, a volume
\* leads to idLock := i.lockWithID(volInfo.Id)
QueryByName(p) ==
  /\ pc[p] = "query"
  /\ oracleCalls' = [oracleCalls EXCEPT ![p] = @ + 1]
  /\ \E err \in OracleErrs :
       LET v == GetVolumeInfoByName(key[p]) IN
       IF err # NoErr
       THEN ReturnWith(p, NilRes, err) /\ UNCHANGED <<handlerCalls, volInfo, volIDLocks>>
       ELSE IF v = NoVol
       THEN Delegate(p) /\ UNCHANGED <<res, resErr, volInfo, volIDLocks>>
       ELSE /\ volInfo' = [volInfo EXCEPT ![p] = v]
            /\ volIDLocks' = lockWithID(volIDLocks, v)
            /\ pc' = [pc EXCEPT ![p] = "idtrylock"]
            /\ UNCHANGED <<res, resErr, handlerCalls>>
  /\ UNCHANGED <<requireVolume, volNameLocks, vols, nextID, method, key, defers, held,
                 started, markAtLock,
                 sequential, faults, prev, lister>>

\* mutant: the result of the second GetVolumeInfo is not looked at
QueryByID_NoLookup(p) ==
  /\ pc[p] = "requery"
  /\ oracleCalls' = [oracleCalls EXCEPT ![p] = @ + 1]
  /\ \E err \in OracleErrs :
       IF err # NoErr
       THEN ReturnWith(p, NilRes, err) /\ UNCHANGED <<handlerCalls, volInfo>>
       ELSE Delegate(p) /\ UNCHANGED <<res, resErr, volInfo>>
  /\ UNCHANGED <<requireVolume, volIDLocks, volNameLocks, vols, nextID, method, key,
                 defers, held, started, markAtLock, sequential, faults, prev, lister>>

\* volInfo, err = i.p.GetVolumeInfo(ctx, volInfo.Id, ""); nil delegates, a volume
\* is the idempotent create
QueryByID(p) ==
  /\ pc[p] = "requery"
  /\ oracleCalls' = [oracleCalls EXCEPT ![p] = @ + 1]
  /\ \E err \in OracleErrs :
       LET v == GetVolumeInfoByID(volInfo[p]) IN
       IF err # NoErr
       THEN ReturnWith(p, NilRes, err) /\ UNCHANGED <<handlerCalls, volInfo>>
       ELSE IF v = NoVol
       THEN Delegate(p) /\ UNCHANGED <<res, resErr, volInfo>>
       ELSE /\ ReturnWith(p, ResultReply(v, NoPub), NoErr)
            /\ UNCHANGED <<handlerCalls, volInfo>>
  /\ UNCHANGED <<requireVolume, volIDLocks, volNameLocks, vols, nextID, method, key,
                 defers, held, started, markAtLock,
                 sequential, faults, prev, lister>>

\* mutant: the in-error set of the id record is not tested
createVolume_NoIDCheck(p) ==
  /\ method[p] = CreateVolume
  /\ \/ AcquireName(p)
     \/ CheckMethodInErr(p, volNameLocks[key[p]], "check", "query")
     \/ QueryByName(p)
     \/ AcquireID(p, volInfo[p], "idtrylock", "requery")
     \/ QueryByID(p)

createVolume(p) ==
  /\ method[p] = CreateVolume
  /\ \/ AcquireName(p)
     \/ CheckMethodInErr(p, volNameLocks[key[p]], "check", "query")
     \/ QueryByName(p)
     \/ AcquireID(p, volInfo[p], "idtrylock", "idcheck")
     \/ /\ pc[p] = "idcheck"
        /\ CheckMethodInErr(p, volIDLocks[volInfo[p]], "idcheck", "requery")
     \/ QueryByID(p)

\* ---------------------------------------------------- downstream handler
\* The error codes of the handler's embedded errors.  Only createVolume tells one
\* code from another, so only there a second code is drawn.
HandlerCodes(m) == IF m = CreateVolume THEN {MISSING_REQUIRED_FIELD, PENDING} ELSE {MISSING_REQUIRED_FIELD}

\* The downstream handler returns: the service carried the request out, or it
\* replies with an embedded error, or it fails with a transport-level error.
\* The mock service has no error reply; asked for a volume it does not have it
\* indexes its list at -1 and panics, so the call does not return.
handlerReturn(p) ==
  /\ pc[p] = "handler"
  /\ \/ /\ SvcCan(method[p], key[p])
        /\ vols' = SvcEffect(method[p], key[p])
        /\ nextID' = IF method[p] = CreateVolume THEN nextID + 1 ELSE nextID
        /\ ReturnWith(p, SvcReply(method[p], key[p]), NoErr)
     \/ /\ faults
        /\ \E code \in HandlerCodes(method[p]) : ReturnWith(p, ErrReply(code), NoErr)
        /\ UNCHANGED <<vols, nextID>>
     \/ /\ faults
        /\ ReturnWith(p, NilRes, HandlerErr)
        /\ UNCHANGED <<vols, nextID>>
  /\ UNCHANGED <<requireVolume, volIDLocks, volNameLocks, method, key, volInfo, defers,
                 held, handlerCalls, oracleCalls, started, markAtLock,
                 sequential, faults, prev, lister>>

\* ---------------------------------------------------------- deferred calls
\* mutant: only a transport-level error counts as a failure
OutcomeHook_ErrOnly(lock, m, r, e) ==
  IF e # NoErr
  THEN [lock EXCEPT !.methodInErr = @ \cup {m}]
  ELSE [lock EXCEPT !.methodInErr = @ \ {m}]

\* mutant: a VOLUME_DOES_NOT_EXIST reply is not counted as a failure
OutcomeHook_NoVolumeOK(lock, m, r, e) ==
  IF Failed(r, e) /\ r.code # NOVOLUME
  THEN [lock EXCEPT !.methodInErr = @ \cup {m}]
  ELSE [lock EXCEPT !.methodInErr = @ \ {m}]

\* the outcome hook of an id-lock: a failure marks the method, a success unmarks it
OutcomeHook(lock, m, r, e) ==
  IF Failed(r, e)
  THEN [lock EXCEPT !.methodInErr = @ \cup {m}]
  ELSE [lock EXCEPT !.methodInErr = @ \ {m}]

\* mutant: the name-lock hook treats OPERATION_PENDING_FOR_VOLUME as any failure
NameOutcomeHook_NoPendingCase(lock, m, r, e) ==
  IF Failed(r, e)
  THEN [lock EXCEPT !.methodInErr = @ \cup {m}]
  ELSE [lock EXCEPT !.methodInErr = @ \ {m}]

\* the outcome hook of createVolume's name-lock: an embedded
\* OPERATION_PENDING_FOR_VOLUME leaves the set as it is
NameOutcomeHook(lock, m, r, e) ==
  IF Failed(r, e)
  THEN IF r.code = PENDING THEN lock ELSE [lock EXCEPT !.methodInErr = @ \cup {m}]
  ELSE [lock EXCEPT !.methodInErr = @ \ {m}]

\* terr := res.(*csi.CreateVolumeResponse).GetError(); terr.Value: with a
\* transport-level error and a reply that carries no Error this dereferences nil
NameHookPanics(r, e) == Failed(r, e) /\ r.kind # "error"

\* The procedure is returning: the deferred call registered last runs next.
runDeferred(p) ==
  /\ pc[p] = "return"
  /\ LET n == Len(defers[p])
         d == defers[p][n]
         rest == SubSeq(defers[p], 1, n - 1)
         after == IF rest = << >> THEN "done" ELSE "return"
     IN
     /\ defers' = [defers EXCEPT ![p] = rest]
     /\ CASE d.op = "unlock" /\ d.tbl = "id" ->
               /\ volIDLocks' = [volIDLocks EXCEPT ![d.k] = Unlocked(@)]
               /\ held' = [held EXCEPT ![p] = @ \ {<<"id", d.k>>}]
               /\ pc' = [pc EXCEPT ![p] = after]
               /\ UNCHANGED volNameLocks
          [] d.op = "unlock" /\ d.tbl = "name" ->
               /\ volNameLocks' = [volNameLocks EXCEPT ![d.k] = Unlocked(@)]
               /\ held' = [held EXCEPT ![p] = @ \ {<<"name", d.k>>}]
               /\ pc' = [pc EXCEPT ![p] = after]
               /\ UNCHANGED volIDLocks
          [] d.op = "hook" /\ d.tbl = "id" ->
               /\ volIDLocks' = [volIDLocks EXCEPT
                     ![d.k] = OutcomeHook(@, method[p], res[p], resErr[p])]
               /\ pc' = [pc EXCEPT ![p] = after]
               /\ UNCHANGED <<volNameLocks, held>>
          [] d.op = "hook" /\ d.tbl = "name" ->
               IF NameHookPanics(res[p], resErr[p])
               THEN /\ pc' = [pc EXCEPT ![p] = "panic"]
                    /\ UNCHANGED <<volIDLocks, volNameLocks, held>>
               ELSE /\ volNameLocks' = [volNameLocks EXCEPT
                          ![d.k] = NameOutcomeHook(@, method[p], res[p], resErr[p])]
                    /\ pc' = [pc EXCEPT ![p] = after]
                    /\ UNCHANGED <<volIDLocks, held>>
  /\ UNCHANGED <<requireVolume, vols, nextID, method, key, volInfo, res, resErr,
                 handlerCalls, oracleCalls, started, markAtLock,
                 sequential, faults, prev, lister>>

\* ------------------------------------------------------------------ Next
Next ==
  \/ \E p \in Procs, m \in AllMethods, k \in VolIDs \cup Names : handle(p, m, k)
  \/ \E p \in Procs : controllerPublishVolume(p)
  \/ \E p \in Procs : controllerUnpublishVolume(p)
  \/ \E p \in Procs : createVolume(p)
  \/ \E p \in Procs : deleteVolume(p)
  \/ \E p \in Procs : nodePublishVolume(p)
  \/ \E p \in Procs : nodeUnpublishVolume(p)
  \/ \E p \in Procs : handlerReturn(p)
  \/ \E p \in Procs : runDeferred(p)

\* requests of any number of clients, served concurrently
Init == InitState /\ sequential = FALSE /\ faults = TRUE

Spec == Init /\ [][Next]_vars

\* one client that sends its next request when the last one has returned
InitSequential == InitState /\ sequential = TRUE /\ faults = TRUE

SpecSequential == InitSequential /\ [][Next]_vars

\* concurrent requests in front of the mock service, with an oracle that reads
\* the service's volume list
InitMock == InitState /\ sequential = FALSE /\ faults = FALSE

SpecMock == InitMock /\ [][Next]_vars

\* a step of the request goroutine p serves: a statement of its procedure, the
\* return of the handler it called, or one of its deferred calls
ProcStep(p) ==
  \/ controllerPublishVolume(p)
  \/ controllerUnpublishVolume(p)
  \/ createVolume(p)
  \/ deleteVolume(p)
  \/ nodePublishVolume(p)
  \/ nodeUnpublishVolume(p)
  \/ handlerReturn(p)
  \/ runDeferred(p)

\* every goroutine that can take a step eventually takes one: TryLock returns
\* after its timeout at the latest, and the oracle and the handler return
Fairness == \A p \in Procs : WF_vars(ProcStep(p))

\* concurrent requests whose goroutines all keep running
SpecLive == Init /\ [][Next]_vars /\ Fairness

\* ------------------------------------------------- the mock's ListVolumes
\* A token is a string, here the sequence of its characters.
Digits == <<"0", "1", "2", "3", "4", "5", "6", "7", "8", "9">>

IsDigit(c) == \E d \in 1..10 : Digits[d] = c

DigitVal(c) == (CHOOSE d \in 1..10 : Digits[d] = c) - 1

\* values from here on are not told apart: they are above every list length, so a
\* token that large ends in the error reply whether ParseUint accepts it (and
\* startingToken > ulenVols) or rejects it as out of the range of 32 bits
TokenLimit == 100000

\* fmt.Sprintf("%d", n): the decimal digits of n, most significant first
RECURSIVE FormatUint(_)
FormatUint(n) ==
  IF n < 10 THEN << Digits[n + 1] >>
  ELSE FormatUint(n \div 10) \o << Digits[(n % 10) + 1] >>

\* strconv.ParseUint(v, 10, 32), reading v from character i on with the value acc
\* of the characters before: -1 is its error (a character that is no digit, an
\* empty string, a value out of range)
RECURSIVE ParseFrom(_, _, _)
ParseFrom(v, i, acc) ==
  IF i > Len(v) THEN acc
  ELSE IF ~IsDigit(v[i]) THEN -1
  ELSE IF acc * 10 + DigitVal(v[i]) >= TokenLimit THEN -1
  ELSE ParseFrom(v, i + 1, acc * 10 + DigitVal(v[i]))

ParseUint(v) == IF v = << >> THEN -1 ELSE ParseFrom(v, 1, 0)

\* gocsi.ErrListVolumes(0, msg)
ErrListVolumes == [kind |-> "error", entries |-> << >>, nextToken |-> << >>]

\* for i = 0; i < len(entries); i++ { entries[i] = &vols[j]; j++ }
\* (the slice is indexed from 0, the sequence from 1)
RECURSIVE FillEntries(_, _, _, _, _)
FillEntries(list, entries, i, j, count) ==
  IF i >= count THEN entries
  ELSE FillEntries(list, Append(entries, list[j + 1]), i + 1, j + 1, count)

\* mutant: the next token is also returned with the last page
ListVolumes_TokenAtEnd(list, reqToken, reqMaxEntries) ==
  LET ulenVols == Len(list)
      parsed == IF reqToken # << >> THEN ParseUint(reqToken) ELSE 0
  IN
  IF parsed < 0 THEN ErrListVolumes
  ELSE IF parsed > ulenVols THEN ErrListVolumes
  ELSE LET rem == ulenVols - parsed
           maxEntries == IF reqMaxEntries = 0 \/ reqMaxEntries > rem
                         THEN rem ELSE reqMaxEntries
           n == parsed + maxEntries
       IN [kind |-> "result",
           entries |-> FillEntries(list, << >>, 0, parsed, maxEntries),
           nextToken |-> IF n <= ulenVols THEN FormatUint(n) ELSE << >>]

\* service.ListVolumes on the copy `list` of s.vols.  The sums stay within the
\* list length, so the 32 bits of startingToken and maxEntries never wrap.
ListVolumes(list, reqToken, reqMaxEntries) ==
  LET ulenVols == Len(list)
      parsed == IF reqToken # << >> THEN ParseUint(reqToken) ELSE 0
  IN
  IF parsed < 0 THEN ErrListVolumes
  ELSE IF parsed > ulenVols THEN ErrListVolumes
  ELSE LET startingToken == parsed
           rem == ulenVols - startingToken
           maxEntries == IF reqMaxEntries = 0 \/ reqMaxEntries > rem
                         THEN rem ELSE reqMaxEntries
           entries == FillEntries(list, << >>, 0, startingToken, maxEntries)
           n == startingToken + Len(entries)
       IN [kind |-> "result", entries |-> entries,
           nextToken |-> IF n < ulenVols THEN FormatUint(n) ELSE << >>]

\* the rest of the state while only ListVolumes is called
ListFrame ==
  UNCHANGED <<requireVolume, volIDLocks, volNameLocks, vols, nextID, pc, method, key,
              volInfo, res, resErr, defers, held, handlerCalls, oracleCalls, started,
              markAtLock, sequential, faults, prev>>

\* the client sends its request and reads the reply
CallListVolumes ==
  /\ lister.reply.kind = "none"
  /\ LET r == ListVolumes(vols, lister.startingToken, lister.maxEntries) IN
     lister' = [lister EXCEPT !.reply = r, !.seen = @ \o r.entries]
  /\ ListFrame

\* the client asks for the next page with the token of the last reply
FollowNextToken ==
  /\ lister.reply.kind = "result" /\ lister.reply.nextToken # << >>
  /\ lister' = [lister EXCEPT !.startingToken = lister.reply.nextToken,
                              !.pos = @ + Len(lister.reply.entries),
                              !.reply = NoLister.reply]
  /\ ListFrame

NextList == CallListVolumes \/ FollowNextToken

\* a list of n volumes, numbered in the order the service created them
VolumeList(n) == [i \in 1..n |-> [id |-> i, name |-> i, dev |-> NoPub, mnt |-> FALSE]]

\* tokens no ListVolumes reply carries
OddTokens == {<<"x">>, <<"-", "1">>, <<"0", "2">>, <<"9", "9", "9", "9", "9", "9">>}

\* the position a drawn token stands for (-1: none, the token is no number)
TokenPos(t) ==
  IF t = << >> THEN 0
  ELSE IF t = <<"0", "2">> THEN 2
  ELSE IF t = <<"9", "9", "9", "9", "9", "9">> THEN 999999
  ELSE IF t \in OddTokens THEN -1
  ELSE CHOOSE s \in 0..(MaxListLen + 1) : FormatUint(s) = t

\* a service with any list of volumes, and a client that starts with any token
\* and any page size
InitList ==
  /\ requireVolume = FALSE
  /\ volIDLocks = << >>
  /\ volNameLocks = << >>
  /\ \E n \in 0..MaxListLen : vols = VolumeList(n) /\ nextID = n + 1
  /\ pc = [p \in Procs |-> "idle"]
  /\ method = [p \in Procs |-> OtherRPC]
  /\ key = [p \in Procs |-> 1]
  /\ volInfo = [p \in Procs |-> NoVol]
  /\ res = [p \in Procs |-> NilRes]
  /\ resErr = [p \in Procs |-> NoErr]
  /\ defers = [p \in Procs |-> << >>]
  /\ held = [p \in Procs |-> {}]
  /\ handlerCalls = [p \in Procs |-> 0]
  /\ oracleCalls = [p \in Procs |-> 0]
  /\ started = 0
  /\ markAtLock = [p \in Procs |-> FALSE]
  /\ sequential = FALSE /\ faults = FALSE
  /\ prev = NoPrev
  /\ \E t \in {<< >>} \cup {FormatUint(s) : s \in 0..(MaxListLen + 1)} \cup OddTokens,
        m \in 0..MaxPage :
       lister = [NoLister EXCEPT !.startingToken = t, !.maxEntries = m,
                                 !.pos = TokenPos(t), !.fromStart = (t = << >>)]

SpecList == InitList /\ [][NextList]_vars

\* ================================================================ claims
\* the goroutines that hold the lock of key k of table tbl
Holders(tbl, k) == {p \in Procs : <<tbl, k>> \in held[p]}

\* the record of the first lock a covered procedure takes
FirstLock(p) ==
  IF method[p] = CreateVolume THEN volNameLocks[key[p]] ELSE volIDLocks[key[p]]

FirstKey(p) == IF method[p] = CreateVolume THEN <<"name", key[p]>> ELSE <<"id", key[p]>>

\* C1: for every key of the id table and of the name table, at most one in-flight
\* procedure holds the key's lock, in every reachable state.
C1_MutualExclusion ==
  /\ \A k \in DOMAIN volIDLocks : Cardinality(Holders("id", k)) <= 1
  /\ \A n \in DOMAIN volNameLocks : Cardinality(Holders("name", n)) <= 1

\* C1 witness: one request holds the id-lock of a volume while another request on
\* the same volume has come back with the contention reply.
C1_Witness ==
  \E p \in Procs, q \in Procs :
    /\ p # q /\ method[p] \in IDMethods /\ method[q] \in IDMethods
    /\ key[p] = key[q]
    /\ <<"id", key[p]>> \in held[p]
    /\ pc[q] = "done" /\ res[q] = ErrReply(PENDING) /\ handlerCalls[q] = 0

\* C2: a procedure that is inside an oracle call or inside the downstream handler
\* holds the lock of its key (the id-lock for the five id-keyed procedures; the
\* name-lock for CreateVolume, and the id-lock from the moment it acquired it), the
\* lock is locked, and for every volume id at most one handler call of the id-keyed
\* procedures is in flight.
C2_SerialAccess ==
  /\ \A p \in Procs :
       (method[p] \in Covered /\ pc[p] \in {"precheck", "query", "requery", "handler"}) =>
         /\ FirstKey(p) \in held[p]
         /\ FirstLock(p).locked
         /\ pc[p] = "requery" =>
              <<"id", volInfo[p]>> \in held[p] /\ volIDLocks[volInfo[p]].locked
         /\ \A i \in DOMAIN defers[p] :
              defers[p][i].op = "unlock" => <<defers[p][i].tbl, defers[p][i].k>> \in held[p]
  /\ \A v \in VolIDs :
       Cardinality({p \in Procs : method[p] \in IDMethods /\ key[p] = v
                                   /\ pc[p] = "handler"}) <= 1

\* C2 witness: a request is inside the handler while another request on the same
\* volume id is at its TryLock.
C2_Witness ==
  \E p \in Procs, q \in Procs :
    /\ p # q /\ method[p] \in IDMethods /\ method[q] \in IDMethods
    /\ key[p] = key[q]
    /\ pc[p] = "handler" /\ pc[q] = "trylock"

\* C3: when the try-lock on the first key of a covered procedure fails, the request
\* is over at once: it returns the embedded OPERATION_PENDING_FOR_VOLUME reply with
\* no transport-level error, and it has invoked neither the handler nor the oracle.
C3_ContentionReply ==
  [][\A p \in Procs :
       (/\ method[p] \in Covered /\ pc[p] = "trylock" /\ pc'[p] # "trylock"
        /\ ~CanLock(FirstLock(p)))
       => /\ pc'[p] = "done"
          /\ res'[p] = ErrReply(PENDING) /\ resErr'[p] = NoErr
          /\ handlerCalls'[p] = 0 /\ oracleCalls'[p] = 0
          /\ held'[p] = {}]_vars

\* C3 witness: a CreateVolume has come back with the contention reply, nothing
\* invoked, while another CreateVolume holds the lock of the same name.
C3_Witness ==
  \E p \in Procs, q \in Procs :
    /\ p # q /\ method[p] = CreateVolume /\ method[q] = CreateVolume
    /\ key[p] = key[q] /\ <<"name", key[q]>> \in held[q]
    /\ pc[p] = "done" /\ res[p] = ErrReply(PENDING) /\ resErr[p] = NoErr
    /\ handlerCalls[p] = 0 /\ oracleCalls[p] = 0

\* the request of p has failed and its deferred Unlock has run, its outcome hook
\* has not
ReleasedInFailure(p) ==
  /\ pc[p] = "return" /\ Failed(res[p], resErr[p])
  /\ FirstKey(p) \notin held[p]
  /\ \E i \in DOMAIN defers[p] : defers[p][i].op = "hook"

\* C4 (as claimed): a request that acquired K's lock while (K, M) was in the
\* in-error set makes no oracle query and delegates; and a request that holds
\* K's lock after a failing request of M released it makes no oracle query.
C4_ErrorBypass_Claimed ==
  /\ \A p \in Procs :
       (method[p] \in Covered /\ markAtLock[p]) =>
         /\ pc[p] \notin {"precheck", "query", "requery"}
         /\ pc[p] \in {"return", "done", "panic"} => handlerCalls[p] = 1
  /\ \A p \in Procs, q \in Procs :
       (/\ p # q /\ method[p] \in IDMethods /\ method[q] = method[p] /\ key[q] = key[p]
        /\ ReleasedInFailure(q) /\ FirstKey(p) \in held[p])
       => pc[p] \notin {"precheck", "query"}

\* C5: when an id-keyed procedure that acquired its lock completes after a
\* transport-level error of the oracle or the handler, or after an embedded error
\* of the handler, its method is in the in-error set of its key at that moment, and
\* the deferred calls have left the error and the reply as they were returned.
C5_FailureMarks ==
  [][\A p \in Procs :
       (method[p] \in IDMethods /\ pc[p] = "return") =>
         /\ res'[p] = res[p] /\ resErr'[p] = resErr[p]
         /\ resErr[p] # NoErr =>
              /\ res[p] = NilRes
              /\ resErr[p] = IF handlerCalls[p] = 1 THEN HandlerErr ELSE OracleErr
         /\ (/\ pc'[p] = "done"
             /\ resErr[p] # NoErr \/ (res[p].kind = "error" /\ handlerCalls[p] = 1))
            => method[p] \in volIDLocks'[key[p]].methodInErr]_vars

\* C5 witness: a DeleteVolume has completed with the handler's embedded error and
\* its mark is in the set of its volume id.
C5_Witness ==
  \E p \in Procs :
    /\ method[p] = DeleteVolume /\ pc[p] = "done" /\ handlerCalls[p] = 1
    /\ res[p] = ErrReply(MISSING_REQUIRED_FIELD) /\ resErr[p] = NoErr
    /\ DeleteVolume \in volIDLocks[key[p]].methodInErr

\* C6 (as claimed): when a procedure that held locks completes with a successful
\* outcome, its method is absent from the in-error set of every record it held (the
\* record of its key; for CreateVolume the name record and, if it took the id-lock,
\* the id record), and its last step left the marks of the other methods alone.
C6_SuccessClears_Claimed ==
  [][\A p \in Procs :
       (/\ method[p] \in Covered /\ pc[p] = "return" /\ pc'[p] = "done"
        /\ ~Failed(res[p], resErr[p]))
       => IF method[p] = CreateVolume
          THEN /\ CreateVolume \notin volNameLocks'[key[p]].methodInErr
               /\ volInfo[p] # NoVol =>
                    CreateVolume \notin volIDLocks'[volInfo[p]].methodInErr
               /\ volNameLocks'[key[p]].methodInErr \ {CreateVolume}
                    = volNameLocks[key[p]].methodInErr \ {CreateVolume}
          ELSE /\ method[p] \notin volIDLocks'[key[p]].methodInErr
               /\ volIDLocks'[key[p]].methodInErr \ {method[p]}
                    = volIDLocks[key[p]].methodInErr \ {method[p]}]_vars

\* C7 (as claimed): no deferred call of a CreateVolume that returns the embedded
\* OPERATION_PENDING_FOR_VOLUME reply adds CreateVolume to an in-error set, of the
\* name table or of the id table.
C7_PendingDoesNotPoison_Claimed ==
  [][\A p \in Procs :
       (/\ method[p] = CreateVolume /\ pc[p] = "return" /\ defers'[p] # defers[p]
        /\ res[p] = ErrReply(PENDING) /\ resErr[p] = NoErr)
       => /\ \A n \in DOMAIN volNameLocks :
               volNameLocks'[n].methodInErr \subseteq volNameLocks[n].methodInErr
          /\ \A v \in DOMAIN volIDLocks :
               volIDLocks'[v].methodInErr \subseteq volIDLocks[v].methodInErr]_vars

SecondOf(p, m) ==
  /\ sequential /\ pc[p] = "done" /\ method[p] = m
  /\ prev.m = m /\ prev.k = key[p] /\ prev.ok

\* the case of C9: the first DeleteVolume found the volume and its handler
\* succeeded, the second one has completed with the oracle reporting it absent
SecondDelete(p) ==
  /\ SecondOf(p, DeleteVolume)
  /\ prev.calls = 1 /\ prev.res = EmptyResult /\ prev.resErr = NoErr
  /\ GetVolumeInfoByID(key[p]) = NoVol /\ resErr[p] # OracleErr

\* C9 (as claimed): for both values of requireVolume the second DeleteVolume
\* returns a successful empty reply too, and the handler is invoked at most once
\* across the two requests.
C9_IdempotentDelete_Claimed ==
  \A p \in Procs :
    SecondDelete(p) =>
      /\ res[p] = EmptyResult /\ resErr[p] = NoErr
      /\ prev.calls + handlerCalls[p] <= 1

\* C9 (amended): the handler is not invoked for the second DeleteVolume; without
\* requireVolume it returns a successful empty reply, with requireVolume it returns
\* the embedded VOLUME_DOES_NOT_EXIST reply.
C9_IdempotentDelete ==
  \A p \in Procs :
    SecondDelete(p) =>
      /\ resErr[p] = NoErr /\ handlerCalls[p] = 0
      /\ res[p] = IF requireVolume THEN ErrReply(NOVOLUME) ELSE EmptyResult

\* C9 witness: without requireVolume a second DeleteVolume has returned the empty
\* reply after one oracle call.
C9_Witness ==
  \E p \in Procs :
    /\ SecondDelete(p) /\ ~requireVolume
    /\ res[p] = EmptyResult /\ oracleCalls[p] = 1 /\ handlerCalls[p] = 0

\* C10: when the second of two successive ControllerPublishVolume requests on one
\* volume has completed, the first having succeeded and the oracle reporting the
\* publication the first reply carries, the second reply carries the same
\* publication info and the handler was invoked at most once across the two,
\* whatever marks the in-error set held before the first.
C10_IdempotentPublish ==
  \A p \in Procs :
    (/\ SecondOf(p, ControllerPublishVolume)
     /\ IsControllerPublished(key[p]) = prev.res.pub /\ resErr[p] # OracleErr)
    => /\ resErr[p] = NoErr /\ res[p].kind = "result"
       /\ res[p].pub = prev.res.pub /\ prev.res.pub = DevMock
       /\ prev.calls + handlerCalls[p] <= 1

\* C10 witness: the first ControllerPublishVolume went to the handler although its
\* method was marked in error, the second was answered from the oracle.
C10_Witness ==
  \E p \in Procs :
    /\ SecondOf(p, ControllerPublishVolume)
    /\ prev.marked /\ prev.calls = 1 /\ handlerCalls[p] = 0 /\ oracleCalls[p] >= 1
    /\ res[p] = ResultReply(NoVol, DevMock) /\ prev.res = res[p]

\* the CreateVolume of q went to the handler, which created the volume its reply
\* carries, and q has released the name-lock
CreatedBy(q) ==
  /\ method[q] = CreateVolume /\ pc[q] \in {"return", "done"}
  /\ handlerCalls[q] = 1 /\ res[q].kind = "result" /\ resErr[q] = NoErr
  /\ <<"name", key[q]>> \notin held[q]

\* p and q are the two CreateVolume requests of C11: q created the volume, p holds
\* the name-lock now (so it took it after q released it), neither found
\* CreateVolume marked when it took a lock, no other goroutine has served requests,
\* and the oracle resolves the name to the volume q created
CreatePair(p, q) ==
  /\ p # q /\ CreatedBy(q)
  /\ method[p] = CreateVolume /\ key[p] = key[q] /\ <<"name", key[p]>> \in held[p]
  /\ ~markAtLock[p] /\ ~markAtLock[q]
  /\ \A r \in Procs \ {p, q} : pc[r] = "idle"
  /\ GetVolumeInfoByName(key[p]) = res[q].vol

\* C11: of two CreateVolume requests with one name that both acquire the
\* name-lock, starting with no mark, the first creating volume V and the oracle
\* resolving the name to V from then on: the second never invokes the handler, so
\* the handler is invoked exactly once, and unless the oracle fails the second
\* returns a success reply that carries V.
C11_IdempotentCreate ==
  \A p \in Procs, q \in Procs :
    CreatePair(p, q) =>
      /\ handlerCalls[p] = 0 /\ pc[p] # "handler"
      /\ handlerCalls[p] + handlerCalls[q] = 1
      /\ (pc[p] = "return" /\ resErr[p] # OracleErr)
         => res[p] = ResultReply(res[q].vol, NoPub) /\ resErr[p] = NoErr

\* C11 witness: the second request is returning the volume the first one created
\* while the first one's outcome hook has not run yet.
C11_Witness ==
  \E p \in Procs, q \in Procs :
    /\ CreatePair(p, q) /\ pc[q] = "return"
    /\ pc[p] = "return" /\ res[p] = ResultReply(res[q].vol, NoPub)
    /\ res[q].vol = 2 /\ oracleCalls[p] = 2

\* the request p serves follows a DeleteVolume that succeeded, it is a
\* CreateVolume that holds the name-lock, and the oracle does not resolve its name
CreateAfterDelete(p) ==
  /\ sequential /\ prev.m = DeleteVolume /\ prev.ok
  /\ method[p] = CreateVolume /\ <<"name", key[p]>> \in held[p]
  /\ GetVolumeInfoByName(key[p]) = NoVol

\* C12: a CreateVolume that follows a successful DeleteVolume, holds the
\* name-lock and whose name the oracle does not resolve goes from the mark check to
\* the by-name query or to the handler, and from the by-name query to the handler
\* (unless the oracle fails), whatever marks the name record and the id record of
\* the deleted volume carry.
C12_CreateAfterDelete ==
  [][\A p \in Procs :
       (CreateAfterDelete(p) /\ pc[p] \in {"check", "query"} /\ pc'[p] # pc[p])
       => \/ pc[p] = "check" /\ pc'[p] = "query"
          \/ pc'[p] = "handler" /\ handlerCalls'[p] = 1
          \/ pc[p] = "query" /\ resErr'[p] = OracleErr]_vars

\* C12 witness: the handler is running for a CreateVolume that follows the
\* DeleteVolume of a volume whose id record carries a CreateVolume mark.
C12_Witness ==
  \E p \in Procs :
    /\ CreateAfterDelete(p) /\ pc[p] = "handler" /\ oracleCalls[p] = 1
    /\ prev.calls = 1 /\ GetVolumeInfoByID(prev.k) = NoVol
    /\ prev.k \in DOMAIN volIDLocks
    /\ CreateVolume \in volIDLocks[prev.k].methodInErr

\* the record whose in-error set the procedure of p is about to test
CheckedLock(p) ==
  IF pc[p] = "idcheck" THEN volIDLocks[volInfo[p]] ELSE FirstLock(p)

\* the marks of a record differ between this state and the next only in methods of ms
OnlyMarkOf(rec, recNext, ms) ==
  \A m \in AllMethods : (m \in recNext.methodInErr) # (m \in rec.methodInErr) => m \in ms

\* the methods of the goroutines that run a deferred call in this step
Returning == {method[p] : p \in {q \in Procs : pc[q] = "return" /\ defers'[q] # defers[q]}}

\* C13: a request whose own method is not in the in-error set it tests goes on to
\* its oracle query and is not sent to the handler, also when marks of other
\* methods are in the set; and a step changes the membership of a method in an
\* in-error set only if it is a deferred call of a procedure of that method.
C13_PerMethod ==
  [][/\ \A p \in Procs :
          (/\ method[p] \in Covered /\ pc[p] \in {"check", "idcheck"} /\ pc'[p] # pc[p]
           /\ method[p] \notin CheckedLock(p).methodInErr)
          => /\ pc'[p] \in {"precheck", "query", "requery"}
             /\ handlerCalls'[p] = handlerCalls[p]
     /\ \A k \in DOMAIN volIDLocks : OnlyMarkOf(volIDLocks[k], volIDLocks'[k], Returning)
     /\ \A n \in DOMAIN volNameLocks :
          OnlyMarkOf(volNameLocks[n], volNameLocks'[n], Returning)
     /\ \A k \in DOMAIN volIDLocks' \ DOMAIN volIDLocks : volIDLocks'[k].methodInErr = {}
     /\ \A n \in DOMAIN volNameLocks' \ DOMAIN volNameLocks :
          volNameLocks'[n].methodInErr = {}]_vars

\* C13 witness: a ControllerPublishVolume is at its idempotency query on a volume
\* whose record carries the mark of a failed DeleteVolume.
C13_Witness ==
  \E p \in Procs :
    /\ method[p] = ControllerPublishVolume /\ pc[p] = "query" /\ handlerCalls[p] = 0
    /\ volIDLocks[key[p]].methodInErr = {DeleteVolume}

\* the state of a request the dispatcher does not cover: no lock, no deferred
\* call, no oracle call, one handler call
Forwarded(p) ==
  method[p] = OtherRPC =>
    /\ held[p] = {} /\ defers[p] = << >> /\ oracleCalls[p] = 0
    /\ pc[p] \in {"idle", "handler", "done"}
    /\ pc[p] \in {"handler", "done"} => handlerCalls[p] = 1

\* C14: a request of a variant that is not covered goes to the handler once, takes
\* no lock, makes no oracle call, returns when the handler returns, and none of its
\* steps changes a lock table; a request of a covered variant enters the handler
\* only by a step of its own procedure made while it holds its first lock.
C14_Dispatcher ==
  [][\A p \in Procs :
       /\ Forwarded(p)'
       /\ (method'[p] = OtherRPC /\ pc'[p] # pc[p])
          => /\ volIDLocks' = volIDLocks /\ volNameLocks' = volNameLocks
             /\ pc'[p] = "handler" \/ (pc[p] = "handler" /\ pc'[p] = "done")
       /\ (method'[p] \in Covered /\ pc'[p] = "handler" /\ pc[p] # "handler")
          => /\ method[p] = method'[p]
             /\ pc[p] \in {"check", "precheck", "query", "idcheck", "requery"}
             /\ FirstKey(p) \in held[p] /\ FirstLock(p).locked]_vars

\* C14 witness: a request that is not covered has returned the handler's
\* transport-level error while another goroutine holds a lock.
C14_Witness ==
  \E p \in Procs, q \in Procs :
    /\ method[p] = OtherRPC /\ pc[p] = "done" /\ handlerCalls[p] = 1
    /\ res[p] = NilRes /\ resErr[p] = HandlerErr
    /\ held[q] # {}

\* C15 (as claimed): while the outcome hook of a lock record has not run yet, the
\* procedure still holds the record's lock, so the in-error set is updated first
\* and the lock released second; this for the id-lock and for the name-lock.
C15_MarkUnderLock_Claimed ==
  \A p \in Procs : \A i \in DOMAIN defers[p] :
    defers[p][i].op = "hook" =>
      /\ <<defers[p][i].tbl, defers[p][i].k>> \in held[p]
      /\ \E j \in DOMAIN defers[p] :
           /\ defers[p][j].op = "unlock"
           /\ defers[p][j].tbl = defers[p][i].tbl /\ defers[p][j].k = defers[p][i].k

\* q and p are the only two requests, of one id-keyed method on one key; q took
\* the lock first, has its outcome and has released the lock; p holds the lock
\* now and is past its mark check
FirstThenSecond(q, p) ==
  /\ started = 2 /\ p # q
  /\ method[q] \in IDMethods /\ method[p] = method[q] /\ key[p] = key[q]
  /\ pc[q] \in {"return", "done"} /\ oracleCalls[q] + handlerCalls[q] > 0
  /\ <<"id", key[q]>> \notin held[q]
  /\ <<"id", key[p]>> \in held[p] /\ pc[p] \notin {"trylock", "check"}

\* the mark check of p found the mark set: p went to the handler without an
\* oracle call
Bypassed(p) == oracleCalls[p] = 0 /\ pc[p] \notin {"precheck", "query"}

\* C16 (as claimed): the second of two requests on one key and method that
\* acquires the lock after the first released it finds the mark set if the first
\* ended in failure and clear if the first ended in success.
C16_SameKeySerialization_Claimed ==
  \A p \in Procs, q \in Procs :
    FirstThenSecond(q, p) => (Failed(res[q], resErr[q]) <=> Bypassed(p))

\* C17: a procedure holds at most two locks; a procedure other than CreateVolume
\* holds at most the id-lock of its key and never a name-lock; CreateVolume holds
\* an id-lock only while it holds the name-lock of its name (so the name-lock is
\* taken first and released last), the id-lock being that of the volume its name
\* resolved to; and a request that is about to try a name-lock holds no lock.
C17_LockOrder ==
  \A p \in Procs :
    /\ Cardinality(held[p]) <= 2
    /\ method[p] # CreateVolume => held[p] \subseteq {<<"id", key[p]>>}
    /\ method[p] = CreateVolume =>
         /\ held[p] \subseteq {<<"name", key[p]>>, <<"id", volInfo[p]>>}
         /\ <<"id", volInfo[p]>> \in held[p] => <<"name", key[p]>> \in held[p]
         /\ pc[p] \in {"trylock", "check", "query", "idtrylock"} =>
              held[p] \subseteq {<<"name", key[p]>>}
         /\ pc[p] = "trylock" => held[p] = {}

\* C17 witness: a CreateVolume has released the id-lock and its hook has run; it
\* still holds the name-lock.
C17_Witness ==
  \E p \in Procs :
    /\ method[p] = CreateVolume /\ pc[p] = "return" /\ volInfo[p] # NoVol
    /\ held[p] = {<<"name", key[p]>>} /\ Len(defers[p]) = 2

\* C18: a goroutine whose request has returned holds no lock and has no deferred
\* call left; a lock is locked exactly while some in-flight procedure holds it, so
\* when no request is in flight no lock of either table is locked.
C18_ReleaseOnExit ==
  /\ \A p \in Procs : ~InFlight(p) => held[p] = {} /\ defers[p] = << >>
  /\ \A k \in DOMAIN volIDLocks :
       volIDLocks[k].locked <=> \E p \in Procs : InFlight(p) /\ <<"id", k>> \in held[p]
  /\ \A n \in DOMAIN volNameLocks :
       volNameLocks[n].locked <=> \E p \in Procs : InFlight(p) /\ <<"name", n>> \in held[p]

\* C18 witness: no request is in flight after a CreateVolume returned from the
\* id-lock timeout and a DeleteVolume returned the handler's transport error.
C18_Witness ==
  \E p \in Procs, q \in Procs :
    /\ \A r \in Procs : ~InFlight(r)
    /\ method[p] = CreateVolume /\ pc[p] = "done" /\ volInfo[p] # NoVol
    /\ res[p] = ErrReply(PENDING) /\ oracleCalls[p] = 1 /\ handlerCalls[p] = 0
    /\ method[q] = DeleteVolume /\ pc[q] = "done" /\ resErr[q] = HandlerErr
    /\ volInfo[p] \in DOMAIN volIDLocks /\ key[p] \in DOMAIN volNameLocks

\* the goroutine takes a step
Stepped(p) == pc'[p] # pc[p] \/ defers'[p] # defers[p]

\* the ids and the names whose records the request of p works on
IDKeys(p) ==
  IF method[p] \in IDMethods THEN {key[p]}
  ELSE IF method[p] = CreateVolume THEN {volInfo[p]} ELSE {}

NameKeys(p) == IF method[p] = CreateVolume THEN {key[p]} ELSE {}

\* C19: a step of a request leaves every record of a key it does not work on as
\* it is (its lock state and its in-error set), in both tables; a try-lock succeeds
\* whenever the lock of its own record is free, whatever other locks of the id
\* table and of the name table are held, and fails only if that lock is taken.
C19_DisjointKeys ==
  [][\A p \in Procs :
       Stepped(p) =>
         /\ \A k \in DOMAIN volIDLocks :
              k \in DOMAIN volIDLocks' /\ (k \notin IDKeys(p)' => volIDLocks'[k] = volIDLocks[k])
         /\ \A n \in DOMAIN volNameLocks :
              /\ n \in DOMAIN volNameLocks'
              /\ n \notin NameKeys(p)' => volNameLocks'[n] = volNameLocks[n]
         /\ (method[p] \in Covered /\ pc[p] = "trylock")
            => (FirstKey(p) \in held'[p] <=> ~FirstLock(p).locked)
         /\ pc[p] = "idtrylock"
            => (<<"id", volInfo[p]>> \in held'[p] <=> ~volIDLocks[volInfo[p]].locked)]_vars

\* C19 witness: a CreateVolume holds the name-lock of its name and the id-lock
\* of the volume the name resolved to while another request holds the id-lock of
\* another volume.
C19_Witness ==
  \E p \in Procs, q \in Procs :
    /\ method[p] = CreateVolume
    /\ held[p] = {<<"name", key[p]>>, <<"id", volInfo[p]>>}
    /\ method[q] \in IDMethods /\ key[q] # volInfo[p] /\ <<"id", key[q]>> \in held[q]

\* the positions of the service's volume list that hold a volume of this name
WithName(n) == {i \in DOMAIN vols : vols[i].name = n}

\* C20: in front of the mock service, with an oracle that reads the service's
\* volume list, the list holds at most one volume per name and at most one per id
\* in every reachable state.
C20_OneVolumePerName ==
  /\ \A n \in Names : Cardinality(WithName(n)) <= 1
  /\ \A i \in DOMAIN vols, j \in DOMAIN vols : vols[i].id = vols[j].id => i = j

\* C20 witness: a CreateVolume found volume 1 by name, the volume was deleted
\* before the CreateVolume took its id-lock, and the service has created the
\* volume of that name anew.
C20_Witness ==
  \E p \in Procs :
    /\ ~faults /\ method[p] = CreateVolume /\ pc[p] = "done"
    /\ volInfo[p] # NoVol /\ handlerCalls[p] = 1 /\ oracleCalls[p] = 2
    /\ res[p].kind = "result" /\ res[p].vol # volInfo[p]
    /\ WithName(key[p]) # {} /\ GetVolumeInfoByName(key[p]) = res[p].vol

\* C21 (as claimed): a CreateVolume that took the name-lock and got a
\* transport-level error from the oracle or from the handler completes by
\* returning that error, and when its deferred calls have run CreateVolume is marked
\* on the name record and, if it took the id-lock, on the id record.
C21_TransportErrorMarks_Claimed ==
  \A p \in Procs :
    (/\ method[p] = CreateVolume /\ resErr[p] # NoErr
     /\ pc[p] # "return" /\ defers[p] = << >>)
    => /\ pc[p] = "done"
       /\ CreateVolume \in volNameLocks[key[p]].methodInErr
       /\ volInfo[p] # NoVol => CreateVolume \in volIDLocks[volInfo[p]].methodInErr

\* the four publish procedures
PublishMethods == {ControllerPublishVolume, ControllerUnpublishVolume,
                   NodePublishVolume, NodeUnpublishVolume}

\* the oracle reports that the end state of method m on volume id is reached
EndStateReached(m, id) ==
  CASE m = ControllerPublishVolume -> IsControllerPublished(id) # NoPub
    [] m = ControllerUnpublishVolume -> IsControllerPublished(id) = NoPub
    [] m = NodePublishVolume -> IsNodePublished(id)
    [] m = NodeUnpublishVolume -> ~IsNodePublished(id)

\* the reply a publish procedure synthesizes when it does not delegate
ShortCircuitReply(m, id) ==
  IF m = ControllerPublishVolume THEN ResultReply(NoVol, IsControllerPublished(id))
  ELSE EmptyResult

\* C22: a publish procedure reaches its idempotency query only with its lock held
\* and from the mark check (mark clear, precheck disabled) or from the precheck
\* (volume found); when the oracle answers the query, the handler is invoked if and
\* only if the end state is not reached, and otherwise the procedure returns a
\* success reply without embedded error and without invoking the handler, which for
\* ControllerPublishVolume carries exactly the oracle's publication info.
C22_ShortCircuit ==
  [][\A p \in Procs :
       /\ (method'[p] \in PublishMethods /\ pc'[p] = "query" /\ pc[p] # "query")
          => /\ <<"id", key[p]>> \in held[p] /\ method[p] = method'[p]
             /\ \/ /\ pc[p] = "check" /\ ~requireVolume
                   /\ method[p] \notin volIDLocks[key[p]].methodInErr
                \/ /\ pc[p] = "precheck" /\ requireVolume
                   /\ GetVolumeInfoByID(key[p]) # NoVol
       /\ (/\ method[p] \in PublishMethods /\ pc[p] = "query" /\ pc'[p] # "query"
           /\ resErr'[p] = NoErr)
          => /\ <<"id", key[p]>> \in held[p]
             /\ pc'[p] = "handler" <=> ~EndStateReached(method[p], key[p])
             /\ pc'[p] = "handler" => handlerCalls'[p] = 1
             /\ pc'[p] # "handler" =>
                  /\ pc'[p] = "return" /\ handlerCalls'[p] = 0
                  /\ res'[p] = ShortCircuitReply(method[p], key[p])
                  /\ res'[p].kind = "result"]_vars

\* C22 witness: a ControllerPublishVolume was answered with the oracle's
\* publication info and a NodeUnpublishVolume of a volume that is not mounted is
\* returning the empty reply, neither having invoked the handler.
C22_Witness ==
  \E p \in Procs, q \in Procs :
    /\ method[q] = ControllerPublishVolume /\ pc[q] = "done" /\ handlerCalls[q] = 0
    /\ res[q] = ResultReply(NoVol, DevMock) /\ resErr[q] = NoErr
    /\ method[p] = NodeUnpublishVolume /\ pc[p] = "return" /\ handlerCalls[p] = 0
    /\ res[p] = EmptyResult /\ resErr[p] = NoErr /\ oracleCalls[p] >= 1

\* the two locks of a CreateVolume whose name resolved to a volume
BothLocks(p) == {<<"name", key[p]>>, <<"id", volInfo[p]>>}

\* C23: createVolume goes through its stages in order.  It reaches the by-name
\* query only from the name record's mark check with the mark clear, and the
\* re-query only from the id record's mark check with the mark clear, holding both
\* locks.  It returns a success reply of its own making only from the re-query,
\* holding both locks, the re-query having found a volume, which is the volume the
\* reply carries.  When the by-name query finds no volume it delegates holding the
\* name-lock alone, and as long as its name has not resolved none of its steps
\* changes the id table.  When the re-query finds no volume it delegates holding
\* both locks.  It is never at the requireVolume precheck and never returns
\* VOLUME_DOES_NOT_EXIST.
C23_CreateStaging ==
  [][\A p \in Procs :
       (method[p] = CreateVolume /\ method'[p] = CreateVolume /\ Stepped(p)) =>
         /\ (pc'[p] = "query" /\ pc[p] # "query")
            => /\ pc[p] = "check" /\ held[p] = {<<"name", key[p]>>}
               /\ CreateVolume \notin volNameLocks[key[p]].methodInErr
         /\ (pc'[p] = "requery" /\ pc[p] # "requery")
            => /\ pc[p] = "idcheck" /\ held[p] = BothLocks(p) /\ oracleCalls[p] = 1
               /\ CreateVolume \notin volIDLocks[volInfo[p]].methodInErr
         /\ (pc'[p] = "return" /\ pc[p] # "return" /\ handlerCalls[p] = 0
             /\ res'[p].kind = "result")
            => /\ pc[p] = "requery" /\ held[p] = BothLocks(p) /\ volInfo[p] # NoVol
               /\ GetVolumeInfoByID(volInfo[p]) # NoVol
               /\ res'[p] = ResultReply(GetVolumeInfoByID(volInfo[p]), NoPub)
               /\ resErr'[p] = NoErr
         /\ (pc[p] = "query" /\ pc'[p] # "query" /\ resErr'[p] = NoErr)
            => IF GetVolumeInfoByName(key[p]) = NoVol
               THEN /\ pc'[p] = "handler" /\ held[p] = {<<"name", key[p]>>}
                    /\ volInfo'[p] = NoVol
               ELSE pc'[p] = "idtrylock" /\ volInfo'[p] = GetVolumeInfoByName(key[p])
         /\ volInfo'[p] = NoVol => volIDLocks' = volIDLocks
         /\ (pc[p] = "requery" /\ pc'[p] # "requery" /\ resErr'[p] = NoErr)
            => /\ held[p] = BothLocks(p)
               /\ pc'[p] = "handler" <=> GetVolumeInfoByID(volInfo[p]) = NoVol
         /\ pc'[p] # "precheck" /\ res'[p].code # NOVOLUME]_vars

\* C23 witness: a CreateVolume that holds both locks is returning, after two
\* oracle calls and no handler call, the volume its re-query found.
C23_Witness ==
  \E p \in Procs :
    /\ method[p] = CreateVolume /\ pc[p] = "return" /\ held[p] = BothLocks(p)
    /\ volInfo[p] # NoVol /\ res[p] = ResultReply(volInfo[p], NoPub) /\ resErr[p] = NoErr
    /\ oracleCalls[p] = 2 /\ handlerCalls[p] = 0

\* the in-error sets of both tables are the same in this state and the next
MarksUnchanged ==
  /\ \A k \in DOMAIN volIDLocks :
       k \in DOMAIN volIDLocks' /\ volIDLocks'[k].methodInErr = volIDLocks[k].methodInErr
  /\ \A n \in DOMAIN volNameLocks :
       n \in DOMAIN volNameLocks' /\ volNameLocks'[n].methodInErr = volNameLocks[n].methodInErr

\* the TryLock the procedure of p is about to make fails
TryLockFails(p) ==
  \/ pc[p] = "trylock" /\ ~CanLock(FirstLock(p))
  \/ pc[p] = "idtrylock" /\ ~CanLock(volIDLocks[volInfo[p]])

\* the request of p is returning from a failed TryLock
TimedOut(p) ==
  /\ pc[p] = "return" /\ res[p] = ErrReply(PENDING) /\ resErr[p] = NoErr
  /\ handlerCalls[p] = 0

\* C24: the step of a failed TryLock returns the embedded
\* OPERATION_PENDING_FOR_VOLUME reply without a handler call and leaves every
\* in-error set as it is; so does every deferred call of the request (there are
\* some only in createVolume's id-lock case, where they release the name-lock); and
\* the request ends holding no lock.
C24_TimeoutKeepsMarks ==
  [][\A p \in Procs :
       (method[p] \in Covered /\ Stepped(p) /\ (TryLockFails(p) \/ TimedOut(p))) =>
         /\ MarksUnchanged
         /\ res'[p] = ErrReply(PENDING) /\ resErr'[p] = NoErr /\ handlerCalls'[p] = 0
         /\ pc'[p] \in {"return", "done"}
         /\ pc[p] = "trylock" => pc'[p] = "done"
         /\ pc[p] = "idtrylock" => pc'[p] = "return" /\ held'[p] = {<<"name", key[p]>>}
         /\ pc'[p] = "done" => held'[p] = {}]_vars

\* C24 witness: a CreateVolume has come back from the failed TryLock of the
\* id-lock, which a DeleteVolume holds; the name-lock is free again and the in-error
\* sets of the name record and of the id record are empty.
C24_Witness ==
  \E p \in Procs, q \in Procs :
    /\ method[p] = CreateVolume /\ pc[p] = "done" /\ volInfo[p] # NoVol
    /\ res[p] = ErrReply(PENDING) /\ resErr[p] = NoErr
    /\ handlerCalls[p] = 0 /\ oracleCalls[p] = 1 /\ held[p] = {}
    /\ method[q] = DeleteVolume /\ <<"id", volInfo[p]>> \in held[q]
    /\ ~volNameLocks[key[p]].locked /\ volNameLocks[key[p]].methodInErr = {}
    /\ volIDLocks[volInfo[p]].methodInErr = {}

\* every record of the table is in the table of the next state, and every record
\* that is new there has a free lock and an empty in-error set
TableGrows(tbl, tblNext) ==
  /\ DOMAIN tbl \subseteq DOMAIN tblNext
  /\ \A k \in DOMAIN tblNext \ DOMAIN tbl : tblNext[k] = NewVolLockInfo

\* the request p starts serving in the next state
Arrives(p) == pc'[p] = "trylock" /\ pc[p] # "trylock"

\* C25: no step removes a key from a lock table, and a record that appears is
\* unlocked with an empty in-error set.  The lookup a request starts with leaves a
\* record that is already in the table exactly as it is, locked or not, and the
\* request is then at its TryLock; so is the lookup of the id record in
\* createVolume.  A record exists for the key of every request that has been
\* served, whether it timed out or not.  A goroutine that is free can start a
\* request on any key, whoever holds that key's lock.
C25_LockTable ==
  [][/\ TableGrows(volIDLocks, volIDLocks') /\ TableGrows(volNameLocks, volNameLocks')
     /\ \A p \in Procs :
          /\ (Arrives(p) /\ method'[p] \in IDMethods)
             => /\ key'[p] \in DOMAIN volIDLocks' /\ volNameLocks' = volNameLocks
                /\ \A k \in DOMAIN volIDLocks : volIDLocks'[k] = volIDLocks[k]
          /\ (Arrives(p) /\ method'[p] = CreateVolume)
             => /\ key'[p] \in DOMAIN volNameLocks' /\ volIDLocks' = volIDLocks
                /\ \A n \in DOMAIN volNameLocks : volNameLocks'[n] = volNameLocks[n]
          /\ (pc'[p] = "idtrylock" /\ pc[p] # "idtrylock")
             => /\ volInfo'[p] \in DOMAIN volIDLocks' /\ volNameLocks' = volNameLocks
                /\ \A k \in DOMAIN volIDLocks : volIDLocks'[k] = volIDLocks[k]
          /\ (method'[p] \in IDMethods /\ pc'[p] # "idle") => key'[p] \in DOMAIN volIDLocks'
          /\ (method'[p] = CreateVolume /\ pc'[p] # "idle")
             => key'[p] \in DOMAIN volNameLocks'
          /\ (pc'[p] \in {"idle", "done", "panic"} /\ started' < MaxRequests)
             => /\ \A k \in VolIDs : (ENABLED handle(p, DeleteVolume, k))'
                /\ \A n \in Names : (ENABLED handle(p, CreateVolume, n))']_vars

\* C25 witness: a request has looked up, and is about to try, the lock of a record
\* that another request holds locked and that carries a mark from an earlier
\* request.
C25_Witness ==
  \E p \in Procs, q \in Procs :
    /\ p # q /\ method[p] \in IDMethods /\ pc[p] = "trylock"
    /\ <<"id", key[p]>> \in held[q]
    /\ volIDLocks[key[p]].locked /\ volIDLocks[key[p]].methodInErr # {}

\* C26 (as claimed): every request invokes the handler at most once; a request
\* that invoked the handler returns, and what it returns is the handler's reply and
\* error; an id-keyed request with an oracle error returns a nil reply and has not
\* invoked the handler.
C26_NoRewriting_Claimed ==
  \A p \in Procs :
    /\ handlerCalls[p] <= 1
    /\ (handlerCalls[p] = 1 /\ pc[p] \notin {"handler", "return"}) => pc[p] = "done"
    /\ (method[p] \in IDMethods /\ resErr[p] = OracleErr)
       => res[p] = NilRes /\ handlerCalls[p] = 0

\* C27 (as claimed): a DeleteVolume that went past its mark check and whose first
\* oracle call did not end the request has called GetVolumeInfo once when
\* requireVolume is unset and twice when it is set.
C27_DeleteOracleCalls_Claimed ==
  \A p \in Procs :
    (method[p] = DeleteVolume /\ pc[p] = "handler" /\ oracleCalls[p] >= 1)
    => oracleCalls[p] = IF requireVolume THEN 2 ELSE 1

\* C27 (amended): a DeleteVolume that holds the lock and finds its mark clear
\* goes on to one call of GetVolumeInfo, for either value of requireVolume: the
\* existence check when it is set, the idempotency query when it is not.  That call
\* is its only oracle call; it leads to the handler or to the return.
C27_DeleteOracleCalls ==
  [][\A p \in Procs :
       (/\ method[p] = DeleteVolume /\ method'[p] = DeleteVolume
        /\ Stepped(p) /\ ~Arrives(p)) =>
         /\ (pc[p] = "check" /\ DeleteVolume \notin volIDLocks[key[p]].methodInErr)
            => /\ pc'[p] = (IF requireVolume THEN "precheck" ELSE "query")
               /\ <<"id", key[p]>> \in held[p] /\ oracleCalls'[p] = 0
         /\ pc[p] \in {"precheck", "query"}
            => /\ oracleCalls[p] = 0 /\ oracleCalls'[p] = 1
               /\ pc'[p] \in {"handler", "return"}
         /\ pc[p] \notin {"precheck", "query"} => oracleCalls'[p] = oracleCalls[p]
         /\ oracleCalls'[p] <= 1]_vars

\* C27 witness: with requireVolume set, a DeleteVolume of a volume that exists is
\* in the handler after one oracle call.
C27_Witness ==
  \E p \in Procs :
    /\ requireVolume /\ method[p] = DeleteVolume /\ pc[p] = "handler"
    /\ oracleCalls[p] = 1 /\ handlerCalls[p] = 1
    /\ GetVolumeInfoByID(key[p]) # NoVol

\* the request before the one p serves was of the same id-keyed method on the
\* same volume id and returned the VOLUME_DOES_NOT_EXIST reply of the existence
\* check
AfterNoVolume(p) ==
  /\ sequential /\ requireVolume /\ method[p] \in IDMethods
  /\ prev.m = method[p] /\ prev.k = key[p]
  /\ prev.res = ErrReply(NOVOLUME) /\ prev.resErr = NoErr /\ prev.calls = 0

C29_NoSynthesizedDelete ==
  \A p \in Procs :
    (requireVolume /\ method[p] = DeleteVolume) =>
      /\ pc[p] # "query"
      /\ handlerCalls[p] = 0 => res[p].kind # "result"
      /\ (pc[p] \in {"return", "done"} /\ handlerCalls[p] = 0) =>
           \/ res[p] = ErrReply(NOVOLUME) /\ resErr[p] = NoErr /\ oracleCalls[p] = 1
           \/ res[p] = ErrReply(PENDING) /\ resErr[p] = NoErr /\ oracleCalls[p] = 0
           \/ res[p] = NilRes /\ resErr[p] = OracleErr /\ oracleCalls[p] = 1

\* C29 witness: with requireVolume set, one DeleteVolume of an absent volume has
\* returned VOLUME_DOES_NOT_EXIST and the next one, finding the mark, is in the
\* handler without an oracle call.
C29_Witness ==
  \E p \in Procs, q \in Procs :
    /\ requireVolume /\ p # q /\ key[p] = key[q] /\ GetVolumeInfoByID(key[p]) = NoVol
    /\ method[p] = DeleteVolume /\ pc[p] = "done" /\ res[p] = ErrReply(NOVOLUME)
    /\ handlerCalls[p] = 0
    /\ method[q] = DeleteVolume /\ pc[q] = "handler" /\ oracleCalls[q] = 0

\* C30 (as claimed): when every goroutine keeps running, every request that is
\* in flight eventually returns a reply or an error.
C30_Termination_Claimed ==
  \A p \in Procs : InFlight(p) ~> (pc[p] = "done")

\* the number of volumes a page holds, for a list of n volumes read from
\* position s with max_entries m
PageLen(n, s, m) == IF m = 0 \/ m > n - s THEN n - s ELSE m

\* C31: for a list of n volumes, a starting token that stands for position s (0
\* for the empty token) and max_entries m, ListVolumes replies with an error if
\* s > n; otherwise with the volumes at positions s .. s+c-1 in list order, c being
\* n-s if m = 0 or m > n-s and m otherwise, and with a next token that is the
\* decimal of s+c if s+c < n and empty otherwise.  A client that starts with the
\* empty token and follows the next tokens with a fixed m over an unchanged list
\* gets no error, has read at every moment the first volumes of the list, each
\* once and in order, gets at least one volume with every page that carries a next
\* token, and has read the whole list when a reply carries no next token.
C31_ListVolumesPaging ==
  LET r == lister.reply
      n == Len(vols)
      s == lister.pos
      c == PageLen(n, s, lister.maxEntries)
  IN
  /\ (r.kind # "none" /\ s >= 0) =>
       /\ s > n => r = ErrListVolumes
       /\ s <= n =>
            /\ r.kind = "result" /\ r.entries = SubSeq(vols, s + 1, s + c)
            /\ IF s + c < n
               THEN /\ r.nextToken # << >> /\ ParseUint(r.nextToken) = s + c
                    /\ r.nextToken[1] # "0"
               ELSE r.nextToken = << >>
  /\ lister.fromStart =>
       /\ r.kind # "error" /\ s <= n
       /\ lister.seen = SubSeq(vols, 1, s + Len(r.entries))
       /\ (r.kind = "result" /\ r.nextToken # << >>) => Len(r.entries) >= 1
       /\ (r.kind = "result" /\ r.nextToken = << >>) => lister.seen = vols

\* C31 witness: a client that started with the empty token and reads two volumes
\* a page has asked for the last page of a list of eleven with the token "10" and
\* has read the whole list.
C31_Witness ==
  /\ lister.fromStart /\ Len(vols) = 11 /\ lister.maxEntries = 2
  /\ lister.startingToken = <<"1", "0">> /\ lister.pos = 10
  /\ lister.reply.kind = "result" /\ lister.reply.nextToken = << >>
  /\ Len(lister.reply.entries) = 1 /\ lister.seen = vols

====
